---- MODULE Spec2Model ----
(***************************************************************************)
(* Gated-counting frequency meter on a PIC12F675 (src/main.c).             *)
(*                                                                         *)
(* TMR1 counts input pulses in hardware (16 bit), its overflow interrupt   *)
(* extends it in software by 0x10000 per wrap into freq.  TMR0 overflows   *)
(* are the time base: every FREQ_CNT-th serviced overflow closes the gate, *)
(* latches freq | TMR1 into freq10, converts it to the 8-bit duty pwm_dc   *)
(* and drives LED_PIN with the range.  The main loop compares the          *)
(* free-running PWM_CNT (TMR0) with pwm_dc and drives PWM_PIN.             *)
(*                                                                         *)
(* One isr invocation is split where the hardware counter can move under   *)
(* it: entry up to the latch 'freq |= TMR1' (IsrTmr0), 'TMR1 = 0' up to    *)
(* the write of pwm_dc (IsrReset), the write of LED_PIN (IsrLed), the      *)
(* overflow handler (IsrTmr1).                                             *)
(* The main loop is split between its comparison and its pin write.        *)
(***************************************************************************)
EXTENDS Integers, Naturals, FiniteSets, Sequences, TLC

VARIABLES
    freq,        \* volatile uint32_t freq
    pwm_dc,      \* volatile uint8_t pwm_dc
    freq_cnt,    \* volatile uint8_t freq_cnt
    freq10,      \* isr local: the effective count latched at the last closure
    TMR1,        \* 16-bit hardware pulse counter
    T0IF,        \* timer-0 overflow flag
    TMR1IF,      \* timer-1 overflow flag
    GPIO,        \* output latch, bits PWM_PIN and LED_PIN
    pcIsr,       \* "idle" | "reset" | "led" | "tmr1": position inside isr
    pcMain,      \* "cmp" | "drive": position inside the main loop
    cmp,         \* result of PWM_CNT > pwm_dc held between compare and drive
    cntRead,     \* history: PWM_CNT as read by the pending comparison
    dcRead,      \* history: pwm_dc as read by the pending comparison
    prev_dc,     \* history: pwm_dc before the most recent gate closure
    mainRan,     \* history: main loop advanced since the last timer-0 overflow
    ticks,       \* history: timer-0 ticks serviced since the last closure
    closed,      \* history: the current/last isr invocation closed a gate
    wraps,       \* history: TMR1 wraps since the last 'TMR1 = 0'
    expected,    \* history: wraps * 65536 + TMR1 at the moment of the latch
    counted,     \* history: pulses counted by TMR1 since freq_init
    reported,    \* history: sum of the effective counts of all closures
    bursts,      \* history: pulse bursts delivered so far
    published,   \* history: a gate closure has completed since freq_init
    both         \* history: the closing tick was entered with TMR1IF pending

vars == <<freq, pwm_dc, freq_cnt, freq10, TMR1, T0IF, TMR1IF, GPIO, pcIsr,
          pcMain, cmp, cntRead, dcRead, prev_dc, mainRan, ticks, closed,
          wraps, expected, counted, reported, bursts, published, both>>

----------------------------------------------------------------------------
(* Program constants *)

FREQ_CNT == 200

FREQ_HIGH == 20

PWM_PIN == 1

LED_PIN == 2

TMR1_RANGE == 65536

UINT8 == 256

----------------------------------------------------------------------------
(* Bounds of the model *)

\* pulse bursts the input delivers in one run of Spec
MaxBursts == 2

\* software-counted wraps a gate window of GateSpec may start its closure with
MaxWraps == 16

\* spacing of the sampled TMR1 residuals of GateSpec
ResidualStride == 256

\* sizes of the bursts the input delivers between two steps of the program
Bursts == {1, TMR1_RANGE - 1}

\* values PWM_CNT is sampled at by the main loop
Tmr0Samples == {0, 1, UINT8 - 1}

\* TMR1 residuals sampled at the closing tick: both sides of every stride
\* boundary, which holds the residuals of the range threshold (36864) and of
\* the full-scale count (40960)
Residuals == {r \in 0..(TMR1_RANGE - 1) :
                 r % ResidualStride \in {0, ResidualStride - 1}}
             \cup {0, 36863, 36864, 40959, 40960, TMR1_RANGE - 1}

----------------------------------------------------------------------------
(* Arithmetic of the target *)

RECURSIVE BitOr(_, _)
BitOr(a, b) ==
    IF a = 0 THEN b
    ELSE IF b = 0 THEN a
    ELSE (IF a % 2 = 1 \/ b % 2 = 1 THEN 1 ELSE 0)
         + 2 * BitOr(a \div 2, b \div 2)

\* IO_SET(port, pins): port |= pins, for a single-bit mask
IO_SET(port, pin) == IF (port \div pin) % 2 = 1 THEN port ELSE port + pin

\* IO_CLR(port, pins): port &= ~pins, for a single-bit mask
IO_CLR(port, pin) == IF (port \div pin) % 2 = 1 THEN port - pin ELSE port

PinHigh(port, pin) == (port \div pin) % 2 = 1

\* mutant: the threshold without its division by 10 (the full-scale count)
ThresholdFullScale == 256 * FREQ_CNT * FREQ_HIGH

\* 256ul * FREQ_CNT * FREQ_HIGH / 10
Threshold == (256 * FREQ_CNT * FREQ_HIGH) \div 10

\* mutant: the threshold taken as an exclusive bound
IsHighRangeStrict(c) == c > Threshold

\* if (freq10 >= 256ul * FREQ_CNT * FREQ_HIGH / 10)
IsHighRange(c) == c >= Threshold

\* mutant: the high range scaled with the low range's divisor
HighDutyLowScale(c) == (c \div (FREQ_CNT * (FREQ_HIGH \div 10))) % UINT8

\* mutant: the high-range duty clamped at 255 (the disabled saturation)
HighDutyClamped(c) ==
    IF c \div (FREQ_CNT * (FREQ_HIGH \div 1)) >= UINT8
    THEN UINT8 - 1
    ELSE c \div (FREQ_CNT * (FREQ_HIGH \div 1))

\* pwm_dc = freq10 / (FREQ_CNT * (FREQ_HIGH / 1)), stored in a uint8_t
HighDuty(c) == (c \div (FREQ_CNT * (FREQ_HIGH \div 1))) % UINT8

\* mutant: the low range scaled with the high range's divisor
LowDutyHighScale(c) == (c \div (FREQ_CNT * (FREQ_HIGH \div 1))) % UINT8

\* pwm_dc = freq10 / (FREQ_CNT * (FREQ_HIGH / 10)), stored in a uint8_t
LowDuty(c) == (c \div (FREQ_CNT * (FREQ_HIGH \div 10))) % UINT8

\* the duty and range published for the effective count c
Duty(c) == IF IsHighRange(c) THEN HighDuty(c) ELSE LowDuty(c)

Indicate(port, c) ==
    IF IsHighRange(c) THEN IO_SET(port, LED_PIN) ELSE IO_CLR(port, LED_PIN)

\* mutant: the comparison taken as PWM_CNT >= pwm_dc
PwmLowInclusive(cnt, dc) == cnt >= dc

\* PWM_CNT > pwm_dc
PwmLow(cnt, dc) == cnt > dc

\* mutant: the pin write done with the wrong pin mask when driving low
DrivePwmWrongPin(port, low) ==
    IF low THEN IO_CLR(port, LED_PIN) ELSE IO_SET(port, PWM_PIN)

\* IO_CLR(PWM_PORT, PWM_PIN); else IO_SET(PWM_PORT, PWM_PIN);
DrivePwm(port, low) ==
    IF low THEN IO_CLR(port, PWM_PIN) ELSE IO_SET(port, PWM_PIN)

\* mutant: the decrement of the downcounter left out
DecrementDropped(n) == n % UINT8

\* freq_cnt -= 1 on a uint8_t
Decrement(n) == (n + UINT8 - 1) % UINT8

\* mutant: the downcounter left at its reset value by freq_init
InitCntZero == FREQ_CNT - FREQ_CNT

\* the value freq_init loads and the closure reloads into the downcounter
InitCnt == FREQ_CNT

\* mutant: the downcounter reloaded one short
ReloadCntShort == FREQ_CNT - 1

ReloadCnt == FREQ_CNT

\* mutant: the quantum written one digit short (0x1000)
AddQuantumShort(f) == f + (TMR1_RANGE \div 16)

\* mutant: the quantum written as the largest count (0xFFFF)
AddQuantumOdd(f) == f + (TMR1_RANGE - 1)

\* freq += 0x10000ul on a uint32_t: the upper half-word is incremented
\* modulo 2^16, the lower half-word is kept
AddQuantum(f) ==
    (((f \div TMR1_RANGE) + 1) % TMR1_RANGE) * TMR1_RANGE + (f % TMR1_RANGE)

\* freq |= TMR1
Latch(f, t) == BitOr(f, t)

----------------------------------------------------------------------------
(* Hardware events *)

\* The input delivers a burst of n pulses to T1CKI; TMR1 counts them and
\* raises TMR1IF when it wraps.  The handler runs for a few hundred
\* instruction cycles, so only a single pulse fits between two of its
\* steps, and a pending overflow is serviced long before the counter can
\* wrap again.
Pulse(n) ==
    /\ bursts < MaxBursts
    /\ pcIsr # "idle" => n = 1
    /\ TMR1 + n >= TMR1_RANGE => ~TMR1IF
    /\ TMR1' = (TMR1 + n) % TMR1_RANGE
    /\ TMR1IF' = (TMR1IF \/ TMR1 + n >= TMR1_RANGE)
    /\ wraps' = wraps + (IF TMR1 + n >= TMR1_RANGE THEN 1 ELSE 0)
    /\ counted' = counted + n
    /\ bursts' = bursts + 1
    /\ UNCHANGED <<freq, pwm_dc, freq_cnt, freq10, T0IF, GPIO, pcIsr, pcMain,
                   cmp, cntRead, dcRead, prev_dc, mainRan, ticks, closed,
                   expected, reported, published, both>>

\* TMR0 rolls over (every 256 * 8 instruction cycles) and raises T0IF.  The
\* period is longer than one isr invocation plus one step of the main loop,
\* so the main loop has advanced since the previous overflow.
Tmr0Overflow ==
    /\ ~T0IF
    /\ mainRan
    /\ T0IF' = TRUE
    /\ mainRan' = FALSE
    /\ UNCHANGED <<freq, pwm_dc, freq_cnt, freq10, TMR1, TMR1IF, GPIO, pcIsr,
                   pcMain, cmp, cntRead, dcRead, prev_dc, ticks, closed,
                   wraps, expected, counted, reported, bursts, published,
                   both>>

----------------------------------------------------------------------------
(* isr *)

\* mutant: a pending Timer-1 overflow serviced before the closing latch
IsrTmr0OverflowFirst ==
    /\ pcIsr = "idle"
    /\ T0IF \/ TMR1IF
    /\ closed' = FALSE
    /\ both' = (T0IF /\ TMR1IF /\ Decrement(freq_cnt) = 0)
    /\ IF T0IF
       THEN /\ T0IF' = FALSE
            /\ freq_cnt' = Decrement(freq_cnt)
            /\ ticks' = IF ticks < UINT8 THEN ticks + 1 ELSE ticks
            /\ IF Decrement(freq_cnt) = 0
               THEN /\ freq' = Latch(IF TMR1IF THEN AddQuantum(freq) ELSE freq,
                                     TMR1)
                    /\ TMR1IF' = FALSE
                    /\ expected' = wraps * TMR1_RANGE + TMR1
                    /\ pcIsr' = "reset"
               ELSE /\ pcIsr' = "tmr1"
                    /\ UNCHANGED <<freq, expected, TMR1IF>>
       ELSE /\ pcIsr' = "tmr1"
            /\ UNCHANGED <<T0IF, freq_cnt, ticks, freq, expected, TMR1IF>>
    /\ UNCHANGED <<pwm_dc, freq10, TMR1, GPIO, pcMain, cmp, cntRead,
                   dcRead, prev_dc, mainRan, wraps, counted, reported, bursts,
                   published>>

\* Interrupt entry and the tmr0 handler up to the latch 'freq |= TMR1'.
IsrTmr0 ==
    /\ pcIsr = "idle"
    /\ T0IF \/ TMR1IF
    /\ closed' = FALSE
    /\ both' = (T0IF /\ TMR1IF /\ Decrement(freq_cnt) = 0)
    /\ IF T0IF
       THEN /\ T0IF' = FALSE
            /\ freq_cnt' = Decrement(freq_cnt)
            /\ ticks' = IF ticks < UINT8 THEN ticks + 1 ELSE ticks
            /\ IF Decrement(freq_cnt) = 0
               THEN /\ freq' = Latch(freq, TMR1)
                    /\ expected' = wraps * TMR1_RANGE + TMR1
                    /\ pcIsr' = "reset"
               ELSE /\ pcIsr' = "tmr1"
                    /\ UNCHANGED <<freq, expected>>
       ELSE /\ pcIsr' = "tmr1"
            /\ UNCHANGED <<T0IF, freq_cnt, ticks, freq, expected>>
    /\ UNCHANGED <<pwm_dc, freq10, TMR1, TMR1IF, GPIO, pcMain, cmp, cntRead,
                   dcRead, prev_dc, mainRan, wraps, counted, reported, bursts,
                   published>>

\* The gate closure after the latch: 'TMR1 = 0' up to the write of pwm_dc.
IsrReset ==
    /\ pcIsr = "reset"
    /\ TMR1' = 0
    /\ freq10' = freq
    /\ freq' = 0
    /\ freq_cnt' = ReloadCnt
    /\ pwm_dc' = Duty(freq)
    /\ pcIsr' = "led"
    /\ prev_dc' = pwm_dc
    /\ ticks' = 0
    /\ wraps' = 0
    /\ reported' = reported + freq
    /\ UNCHANGED <<T0IF, TMR1IF, GPIO, pcMain, cmp, cntRead, dcRead, mainRan,
                   closed, expected, counted, bursts, published, both>>

\* The end of the gate closure: IO_SET or IO_CLR of LED_PIN.
IsrLed ==
    /\ pcIsr = "led"
    /\ GPIO' = Indicate(GPIO, freq10)
    /\ pcIsr' = "tmr1"
    /\ closed' = TRUE
    /\ published' = TRUE
    /\ UNCHANGED <<freq, pwm_dc, freq_cnt, freq10, TMR1, T0IF, TMR1IF, pcMain,
                   cmp, cntRead, dcRead, prev_dc, mainRan, ticks, wraps,
                   expected, counted, reported, bursts, both>>

\* The tmr1 handler and the return from the interrupt.
IsrTmr1 ==
    /\ pcIsr = "tmr1"
    /\ pcIsr' = "idle"
    /\ IF TMR1IF
       THEN /\ TMR1IF' = FALSE
            /\ freq' = AddQuantum(freq)
       ELSE UNCHANGED <<TMR1IF, freq>>
    /\ UNCHANGED <<pwm_dc, freq_cnt, freq10, TMR1, T0IF, GPIO, pcMain, cmp,
                   cntRead, dcRead, prev_dc, mainRan, ticks, closed, wraps,
                   expected, counted, reported, bursts, published, both>>

----------------------------------------------------------------------------
(* main loop: runs while no interrupt is in service or pending *)

\* mutant: the main loop resumed inside the handler (interrupts nested)
MainCanRunNested == ~T0IF /\ ~TMR1IF

MainCanRun == pcIsr = "idle" /\ ~T0IF /\ ~TMR1IF

\* if (PWM_CNT > pwm_dc), with PWM_CNT read as t
MainCompare(t) ==
    /\ MainCanRun
    /\ pcMain = "cmp"
    /\ cmp' = PwmLow(t, pwm_dc)
    /\ cntRead' = t
    /\ dcRead' = pwm_dc
    /\ pcMain' = "drive"
    /\ mainRan' = TRUE
    /\ UNCHANGED <<freq, pwm_dc, freq_cnt, freq10, TMR1, T0IF, TMR1IF, GPIO,
                   pcIsr, prev_dc, ticks, closed, wraps, expected, counted,
                   reported, bursts, published, both>>

\* the pin write the comparison selected
MainDrive ==
    /\ MainCanRun
    /\ pcMain = "drive"
    /\ GPIO' = DrivePwm(GPIO, cmp)
    /\ pcMain' = "cmp"
    /\ cmp' = FALSE
    /\ cntRead' = 0
    /\ dcRead' = 0
    /\ mainRan' = TRUE
    /\ UNCHANGED <<freq, pwm_dc, freq_cnt, freq10, TMR1, T0IF, TMR1IF, pcIsr,
                   prev_dc, ticks, closed, wraps, expected, counted,
                   reported, bursts, published, both>>

----------------------------------------------------------------------------
(* Specifications *)

\* The state main() reaches after mcu_init(), freq_init() and ei().  The
\* LED_PIN latch is not written by freq_init: either level.
Init ==
    /\ freq = 0
    /\ pwm_dc = 0
    /\ freq_cnt = InitCnt
    /\ freq10 = 0
    /\ TMR1 = 0
    /\ T0IF = FALSE
    /\ TMR1IF = FALSE
    /\ GPIO \in {0, LED_PIN}
    /\ pcIsr = "idle"
    /\ pcMain = "cmp"
    /\ cmp = FALSE
    /\ cntRead = 0
    /\ dcRead = 0
    /\ prev_dc = 0
    /\ mainRan = FALSE
    /\ ticks = 0
    /\ closed = FALSE
    /\ wraps = 0
    /\ expected = 0
    /\ counted = 0
    /\ reported = 0
    /\ bursts = 0
    /\ published = FALSE
    /\ both = FALSE

Next ==
    \/ \E n \in Bursts : Pulse(n)
    \/ Tmr0Overflow
    \/ IsrTmr0
    \/ IsrReset
    \/ IsrLed
    \/ IsrTmr1
    \/ \E t \in Tmr0Samples : MainCompare(t)
    \/ MainDrive

Spec == Init /\ [][Next]_vars

\* The hardware keeps running and the processor keeps executing: TMR0 keeps
\* overflowing, a handler that was entered runs to its return, a pending
\* interrupt is taken, and the main loop advances whenever it can run.
Fairness ==
    /\ WF_vars(Tmr0Overflow)
    /\ WF_vars(IsrTmr0)
    /\ WF_vars(IsrReset)
    /\ WF_vars(IsrLed)
    /\ WF_vars(IsrTmr1)
    /\ WF_vars(\E t \in Tmr0Samples : MainCompare(t))
    /\ WF_vars(MainDrive)

FairSpec == Init /\ [][Next]_vars /\ Fairness

\* The states the program is in when the tick that closes a gate is
\* pending: w overflows already added to freq, residual r in TMR1, possibly
\* one more overflow still pending (TMR1 has then just wrapped).
GateInit ==
    /\ \E w \in 0..MaxWraps :
          /\ freq = w * TMR1_RANGE
          /\ TMR1IF \in BOOLEAN
          /\ wraps = w + (IF TMR1IF THEN 1 ELSE 0)
    /\ TMR1 \in Residuals
    /\ TMR1IF => TMR1 < ResidualStride
    /\ counted = wraps * TMR1_RANGE + TMR1
    /\ pwm_dc = 0
    /\ freq_cnt = 1
    /\ freq10 = 0
    /\ T0IF = TRUE
    /\ GPIO \in {0, LED_PIN}
    /\ pcIsr = "idle"
    /\ pcMain = "cmp"
    /\ cmp = FALSE
    /\ cntRead = 0
    /\ dcRead = 0
    /\ prev_dc = 0
    /\ mainRan = FALSE
    /\ ticks = FREQ_CNT - 1
    /\ closed = FALSE
    /\ expected = 0
    /\ reported = 0
    /\ bursts = 0
    /\ published = FALSE
    /\ both = FALSE

\* One gate closure and the main loop after it.
GateNext ==
    \/ IsrTmr0
    \/ IsrReset
    \/ IsrLed
    \/ IsrTmr1
    \/ \E t \in Tmr0Samples : MainCompare(t)
    \/ MainDrive

GateSpec == GateInit /\ [][GateNext]_vars

----------------------------------------------------------------------------
(* Properties of the conversion, checked under GateSpec *)

LedHigh == PinHigh(GPIO, LED_PIN)

\* C1: every effective count below the threshold 102400 latched at a gate
\* closure is published as pwm_dc = floor(c / 400) with LED_PIN low.
C1_LowRange ==
    (closed /\ freq10 < 102400) =>
        (pwm_dc = freq10 \div 400 /\ ~LedHigh)

C1_Witness ==
    closed /\ freq10 = 102399 /\ pwm_dc = 255 /\ ~LedHigh

\* C2 as stated: every effective count at or above the threshold is
\* published as pwm_dc = floor(c / 4000) with LED_PIN high, whatever its
\* size.
C2_HighRangeUnbounded ==
    (closed /\ freq10 >= 102400) =>
        (pwm_dc = freq10 \div 4000 /\ LedHigh)

\* C2 as amended: every effective count at or above the threshold is
\* published as pwm_dc = floor(c / 4000) modulo 256 with LED_PIN high; the
\* quotient itself is published exactly when c < 1024000.
C2_HighRangeModulo ==
    (closed /\ freq10 >= 102400) =>
        /\ pwm_dc = (freq10 \div 4000) % 256
        /\ LedHigh
        /\ (pwm_dc = freq10 \div 4000) <=> (freq10 < 1024000)

C2_Witness ==
    closed /\ freq10 > 1024000 /\ LedHigh /\ pwm_dc = (freq10 \div 4000) - 256

\* C3: a gate window that delivers exactly the full-scale count 1024000
\* ends with LED_PIN high and pwm_dc at 255 or one step below it.
C3_FullScaleSaturates ==
    (closed /\ freq10 = 1024000) => (LedHigh /\ pwm_dc >= 254)

\* C4: the threshold is an inclusive lower bound of the high range: a count
\* of 102400 closes with LED_PIN high and pwm_dc = 25, no high-range count
\* below full scale yields a smaller duty, and 102399 closes with LED_PIN
\* low.
C4_ThresholdInclusive ==
    closed =>
        /\ freq10 = 102400 => (LedHigh /\ pwm_dc = 25)
        /\ freq10 = 102399 => ~LedHigh
        /\ (freq10 >= 102400 /\ freq10 < 1024000) => (LedHigh /\ pwm_dc >= 25)

C4_Witness ==
    /\ closed
    /\ freq10 = 102400
    /\ expected = 1 * 65536 + 36864
    /\ LedHigh
    /\ pwm_dc = 25

----------------------------------------------------------------------------
(* Properties of the gate and the counters, checked under Spec *)

\* C5: the effective count handed to the classifier equals N * 65536 + r
\* for the N wraps of TMR1 since the previous closure and the residual r
\* read at the latch, in every order the two flags become pending.
C5_EffectiveCount ==
    pcIsr # "reset" => freq10 = expected

\* C6: whenever no handler is running and no overflow awaits service, the
\* counts reported so far plus the pulses held in freq and TMR1 equal the
\* pulses TMR1 has counted since initialization.
C6_NoPulseLost ==
    (pcIsr = "idle" /\ ~TMR1IF) => reported + freq + TMR1 = counted

\* C7: every isr invocation that closes a gate returns with freq = 0 and
\* freq_cnt = FREQ_CNT.
C7_ClosureReturn ==
    (closed /\ pcIsr = "idle") => (freq = 0 /\ freq_cnt = 200)

\* C8: freq_cnt stays in [0, FREQ_CNT], and a gate closes on exactly every
\* 200th serviced timer-0 tick: the handler is at the closure exactly when
\* 200 ticks were serviced since the previous closure (or since freq_init),
\* and otherwise the downcounter holds the ticks still to come.
C8_GateEvery200 ==
    /\ freq_cnt \in 0..200
    /\ pcIsr = "reset" => (ticks = 200 /\ freq_cnt = 0)
    /\ pcIsr # "reset" => (ticks < 200 /\ freq_cnt = 200 - ticks)

C8_Witness ==
    pcIsr = "reset" /\ ticks = 200 /\ reported > 0 /\ bursts > 0

C10_Frame ==
    [][/\ (pcIsr = "reset" /\ pcIsr' = "led") => pwm_dc' = Duty(freq10')
       /\ (pcIsr = "led" /\ pcIsr' = "tmr1") =>
             (PinHigh(GPIO', LED_PIN) <=> (freq10 >= 102400))
       /\ ~(pcIsr = "reset" /\ pcIsr' = "led") => pwm_dc' = pwm_dc
       /\ ~(pcIsr = "led" /\ pcIsr' = "tmr1") =>
             (PinHigh(GPIO', LED_PIN) <=> PinHigh(GPIO, LED_PIN))
       /\ pcMain' # pcMain =>
             /\ freq' = freq
             /\ freq_cnt' = freq_cnt
             /\ TMR1' = TMR1]_vars

C10_Witness ==
    /\ MainCanRun
    /\ pcMain = "drive"
    /\ closed
    /\ freq10 >= 102400
    /\ LedHigh
    /\ pwm_dc # prev_dc
    /\ freq_cnt = 200

\* C11: between two gate closures freq never decreases: outside the
\* closure it changes only by +65536, in the overflow handler; the latch of
\* the closure can only raise it; and it is set to zero by the reset step
\* of the closure, once, and by no other step.
C11_FreqMonotone ==
    [][/\ (pcIsr = "reset" /\ pcIsr' = "led") => freq' = 0
       /\ (pcIsr = "idle" /\ pcIsr' = "reset") => freq' >= freq
       /\ (pcIsr = "tmr1" /\ pcIsr' = "idle") => freq' \in {freq, freq + 65536}
       /\ ~(\/ pcIsr = "reset" /\ pcIsr' = "led"
            \/ pcIsr = "idle" /\ pcIsr' = "reset"
            \/ pcIsr = "tmr1" /\ pcIsr' = "idle") => freq' = freq
       /\ freq' < freq => (pcIsr = "reset" /\ pcIsr' = "led")]_vars

C11_Witness ==
    pcIsr = "reset" /\ freq > 65536 /\ wraps = 1 /\ ~TMR1IF

----------------------------------------------------------------------------
(* Further properties of the conversion, checked under GateSpec *)

\* C12: for every effective count below the full-scale count 1024000 the
\* quotient fits in 8 bits (at most 255 in the low range, 25 to 255 in the
\* high range), so pwm_dc holds the untruncated quotient.
C12_QuotientFits ==
    (closed /\ freq10 < 1024000) =>
        /\ freq10 < 102400 =>
              (freq10 \div 400 <= 255 /\ pwm_dc = freq10 \div 400)
        /\ freq10 >= 102400 =>
              /\ freq10 \div 4000 >= 25
              /\ freq10 \div 4000 <= 255
              /\ pwm_dc = freq10 \div 4000

C12_Witness ==
    closed /\ freq10 = 1023999 /\ pwm_dc = 255 /\ LedHigh

----------------------------------------------------------------------------
(* Further properties of the handlers and the main loop, checked under Spec *)

\* C14: whenever the main loop executes a step after the first closure,
\* pwm_dc and LED_PIN are those of one and the same gate closure: both
\* follow from the count latched last.
C14_PublishedTogether ==
    [][(pcMain' # pcMain /\ published) =>
          /\ pwm_dc = (IF freq10 >= 102400 THEN freq10 \div 4000
                                           ELSE freq10 \div 400) % 256
          /\ PinHigh(GPIO, LED_PIN) <=> (freq10 >= 102400)]_vars

\* the handler between its two writes: the new duty with the old range flag
C14_Witness ==
    /\ pcIsr = "led"
    /\ published
    /\ pwm_dc # prev_dc
    /\ LedHigh
    /\ freq10 < 102400

C16_InitialState ==
    /\ (~published /\ pcIsr # "led") =>
           /\ pwm_dc = 0
           /\ ticks <= 200
           /\ ticks = 200 => pcIsr = "reset"
    /\ (/\ ~published
        /\ ticks = 0
        /\ counted = 0
        /\ ~T0IF
        /\ pcIsr = "idle"
        /\ ~mainRan
        /\ pcMain = "cmp") =>
           /\ pwm_dc = 0
           /\ freq_cnt = 200
           /\ freq = 0
           /\ TMR1 = 0
           /\ ~PinHigh(GPIO, PWM_PIN)

C16_Witness ==
    /\ ~published
    /\ pcIsr = "idle"
    /\ ticks = 199
    /\ pwm_dc = 0
    /\ freq = 65536
    /\ TMR1 > 0
    /\ PinHigh(GPIO, PWM_PIN)

\* C17: Timer-1 overflows are the only thing that changes freq between
\* closures, each adding exactly 65536, so outside the handler freq is a
\* multiple of 65536; the closing latch ORs TMR1 into a value whose low 16
\* bits are zero, which is the same as adding it.
C17_LatchIsAddition ==
    [][/\ pcIsr = "idle" => freq % 65536 = 0
       /\ (pcIsr = "idle" /\ pcIsr' = "reset") => freq' = freq + TMR1
       /\ (pcIsr = "tmr1" /\ freq' # freq) => freq' = freq + 65536]_vars

C17_Witness ==
    /\ pcIsr = "reset"
    /\ freq = 65536 + 65534
    /\ TMR1 = 65534
    /\ wraps = 1

\* C18: within one isr invocation the tick is handled before the Timer-1
\* overflow: when the closing tick and an overflow are both pending at
\* entry, the latch adds only TMR1 and leaves the overflow pending, the
\* closure publishes that sum and clears freq, and the overflow handler
\* then adds its 65536, so the isr returns with freq = 65536.
C18_TickBeforeOverflow ==
    [][/\ (/\ pcIsr = "idle"
           /\ T0IF
           /\ TMR1IF
           /\ freq_cnt = 1
           /\ pcIsr' # "idle") =>
              /\ pcIsr' = "reset"
              /\ both'
              /\ freq' = freq + TMR1
              /\ TMR1IF'
       /\ (both /\ pcIsr = "reset" /\ pcIsr' # "reset") =>
              /\ freq10' = freq
              /\ freq' = 0
              /\ TMR1IF'
       /\ (both /\ pcIsr = "led" /\ pcIsr' # "led") =>
              /\ freq' = 0
              /\ TMR1IF'
       /\ (both /\ closed /\ pcIsr = "tmr1" /\ pcIsr' = "idle") =>
              /\ freq' = 65536
              /\ freq10' = freq10
              /\ ~TMR1IF']_vars

C18_Witness ==
    /\ both
    /\ closed
    /\ pcIsr = "idle"
    /\ freq = 65536
    /\ expected = freq10 + 65536
    /\ freq10 > 0

====
